---- MODULE Spec2Model ----
(***************************************************************************)
(* A model of the HTML tokenizer of src/src/tokenizer.rs: the Tokenizer    *)
(* iterator (state + token queue), the TokenizerState step function, one   *)
(* action per state of the machine, and the token model.                   *)
(*                                                                         *)
(* A character is a string: "NUL" is U+0000, "GRAVE" is U+0060, and the    *)
(* names in WideChars are characters whose UTF-8 encoding is longer than   *)
(* one byte.  A Rust String / &str is a sequence of characters;            *)
(* Option<String> is <<>> for None and <<s>> for Some(s).                  *)
(***************************************************************************)
EXTENDS Naturals, Sequences, FiniteSets

VARIABLES
    source,     \* the &str given to Tokenizer::new (never changes)
    state,      \* Tokenizer.state: the name of the TokenizerState variant
    input,      \* the variant's remaining input slice
    tag,        \* the variant's in-progress Tag        (NoTag when it has none)
    attribute,  \* the variant's in-progress Attribute  (NoAttribute when none)
    doctype,    \* the variant's in-progress Doctype    (NoDoctype when none)
    tokens,     \* Tokenizer.tokens: the VecDeque<Token>
    pc,         \* "idle": between pulls; "next": inside next(); "panicked"
    fault,      \* why the thread panicked: "none", "todo", "panic", "slice"
    out,        \* history: every value next() has returned, in order
    endpos,     \* history: for each token pushed, the input consumed by then
    seen        \* history: the attributes handed to add_attribute for `tag`

vars == <<source, state, input, tag, attribute, doctype, tokens, pc, fault,
          out, endpos, seen>>

-----------------------------------------------------------------------------
(* Bounds of the model *)

MaxLen == 3
MaxAttrs == 2
MaxNone == 2

-----------------------------------------------------------------------------
(* Characters *)

LowerLetters ==
    <<"a","b","c","d","e","f","g","h","i","j","k","l","m",
      "n","o","p","q","r","s","t","u","v","w","x","y","z">>

UpperLetters ==
    <<"A","B","C","D","E","F","G","H","I","J","K","L","M",
      "N","O","P","Q","R","S","T","U","V","W","X","Y","Z">>

IndexIn(letters, ch) == CHOOSE i \in DOMAIN letters : letters[i] = ch

IsIn(letters, ch) == \E i \in DOMAIN letters : letters[i] = ch

IsUpper(ch) == IsIn(UpperLetters, ch)

IsLower(ch) == IsIn(LowerLetters, ch)

\* A faulty variant of to_ascii_lowercase: the character is kept as written.
to_ascii_lowercase_kept(ch) == ch

to_ascii_lowercase(ch) ==
    IF IsUpper(ch) THEN LowerLetters[IndexIn(UpperLetters, ch)] ELSE ch

to_ascii_uppercase(ch) ==
    IF IsLower(ch) THEN UpperLetters[IndexIn(LowerLetters, ch)] ELSE ch

\* A faulty variant of the case folding of the lookahead: the slice is
\* compared as written.
UppercaseKept(s) == s

\* str::to_ascii_uppercase; str::to_uppercase agrees with it on every
\* character of the model
Uppercase(s) == [i \in DOMAIN s |-> to_ascii_uppercase(s[i])]

\* '\t' | '\u{0a}' | '\u{0c}' | ' '
Whitespace == {"\t", "\n", "\f", " "}

\* matches!(ch, 'a'..'z' | 'A'..'Z'): both ranges exclude their upper end
IsLetterPattern(ch) ==
    \/ \E i \in 1..(Len(LowerLetters) - 1) : LowerLetters[i] = ch
    \/ \E i \in 1..(Len(UpperLetters) - 1) : UpperLetters[i] = ch

\* Characters encoded in more than one byte, with their UTF-8 width.
WideChars == {"U+00E9", "U+20AC", "U+1F600"}

Width(ch) ==
    CASE ch = "U+00E9" -> 2
      [] ch = "U+20AC" -> 3
      [] ch = "U+1F600" -> 4
      [] OTHER -> 1

RECURSIVE ByteLen(_)
ByteLen(s) == IF s = <<>> THEN 0 ELSE Width(Head(s)) + ByteLen(Tail(s))

\* &input[a..b] on a &str panics unless both byte offsets are character
\* boundaries within the string; offset 0 always is one.
IsCharBoundary(s, n) == \E k \in 0..Len(s) : ByteLen(SubSeq(s, 1, k)) = n

CharsBefore(s, n) == CHOOSE k \in 0..Len(s) : ByteLen(SubSeq(s, 1, k)) = n

\* &input[0..n]
SliceTo(s, n) == SubSeq(s, 1, CharsBefore(s, n))

\* &input[n..]
SliceFrom(s, n) == SubSeq(s, CharsBefore(s, n) + 1, Len(s))

-----------------------------------------------------------------------------
(* The token model *)

NoAttribute == [name |-> <<"(none)">>, value |-> <<>>]

NoTag == [kind |-> "None", name |-> <<>>, self_closing |-> FALSE,
          attributes |-> <<>>]

NoDoctype == [name |-> <<"(none)">>, public_identifier |-> <<>>,
              system_identifier |-> <<>>, force_quirks |-> FALSE]

AttributeNew == [name |-> <<>>, value |-> <<>>]

TagNew(kind) ==
    [kind |-> kind, name |-> <<>>, self_closing |-> FALSE,
     attributes |-> <<>>]

DoctypeNew ==
    [name |-> <<>>, public_identifier |-> <<>>, system_identifier |-> <<>>,
     force_quirks |-> FALSE]

\* A faulty variant of add_attribute: a repeated name replaces the stored value.
add_attribute_last_wins(t, a) ==
    IF \E i \in DOMAIN t.attributes : t.attributes[i].name = a.name
    THEN [t EXCEPT !.attributes =
            [i \in DOMAIN t.attributes |->
                IF t.attributes[i].name = a.name THEN a ELSE t.attributes[i]]]
    ELSE [t EXCEPT !.attributes = Append(t.attributes, a)]

add_attribute(t, a) ==
    IF \E i \in DOMAIN t.attributes : t.attributes[i].name = a.name
    THEN t
    ELSE [t EXCEPT !.attributes = Append(t.attributes, a)]

TokenEOF ==
    [type |-> "EOF", ch |-> "", tag |-> NoTag, doctype |-> NoDoctype]

TokenChar(ch) ==
    [type |-> "Char", ch |-> ch, tag |-> NoTag, doctype |-> NoDoctype]

TokenTag(t) ==
    [type |-> "Tag", ch |-> "", tag |-> t, doctype |-> NoDoctype]

TokenDoctype(d) ==
    [type |-> "Doctype", ch |-> "", tag |-> NoTag, doctype |-> d]

\* What next() returns when the queue is empty: Option::None
None ==
    [type |-> "None", ch |-> "", tag |-> NoTag, doctype |-> NoDoctype]

-----------------------------------------------------------------------------
(* The result of one call of TokenizerState::step: the successor variant   *)
(* with its fields, the tokens pushed, the attributes handed to            *)
(* add_attribute, whether Tag::new was called, and the panic raised if     *)
(* any.  A panic leaves Tokenizer.state at the EOF that Tokenizer::step    *)
(* stored with mem::replace.                                               *)

To(st, inp, t, a, d) ==
    [state |-> st, input |-> inp, tag |-> t, attribute |-> a, doctype |-> d,
     emit |-> <<>>, added |-> <<>>, fresh |-> FALSE, fault |-> "none"]

Abort(kind) ==
    [state |-> "EOF", input |-> <<>>, tag |-> NoTag, attribute |-> NoAttribute,
     doctype |-> NoDoctype, emit |-> <<>>, added |-> <<>>, fresh |-> FALSE,
     fault |-> kind]

\* todo!()
Todo == Abort("todo")

\* A faulty variant of the push: the token is pushed twice.
EmitTwice(tok, r) == [r EXCEPT !.emit = <<tok, tok>> \o r.emit]

\* tokens.push_back(tok), executed before the successor is built
Emit(tok, r) == [r EXCEPT !.emit = <<tok>> \o r.emit]

\* tag.add_attribute(a) was called on the way to r
Added(a, r) == [r EXCEPT !.added = <<a>> \o r.added]

Fresh(r) == [r EXCEPT !.fresh = TRUE]

\* The successor built with `input: &input[1..]`: the slice panics when
\* byte 1 is inside the first character.
Advance(inp, r) ==
    IF IsCharBoundary(inp, 1)
    THEN [r EXCEPT !.input = SliceFrom(inp, 1)]
    ELSE Abort("slice")

\* input.chars().nth(0): <<>> is None
Nth0(inp) == IF inp = <<>> THEN "" ELSE Head(inp)


\* The successor variants, by the fields they carry
InData(inp) == To("Data", inp, NoTag, NoAttribute, NoDoctype)

Plain(st, inp) == To(st, inp, NoTag, NoAttribute, NoDoctype)

InTag(st, inp, t) == To(st, inp, t, NoAttribute, NoDoctype)

InAttr(st, inp, t, a) == To(st, inp, t, a, NoDoctype)

InDoctype(st, inp, d) == To(st, inp, NoTag, NoAttribute, d)

-----------------------------------------------------------------------------
(* TokenizerState::step, one operator per arm of its match *)

\* A faulty variant of the AfterAttributeName arm: the `/` arm is missing, so
\* a `/` is handed back to AttributeName, which hands it back in turn.
AfterAttributeNameNoSolidus(inp, t, a) ==
    LET c == Nth0(inp) IN
    CASE c = "" -> Todo
      [] c \in Whitespace -> Advance(inp, InAttr("AfterAttributeName", inp, t, a))
      [] c = "=" -> Advance(inp, InAttr("BeforeAttributeValue", inp, t, a))
      [] c = ">" ->
            Added(a, Emit(TokenTag(add_attribute(t, a)),
                          Advance(inp, InData(inp))))
      [] OTHER ->
            Added(a, InAttr("AttributeName", inp, add_attribute(t, a),
                            AttributeNew))

AfterAttributeName(inp, t, a) ==
    LET c == Nth0(inp) IN
    CASE c = "" -> Todo
      [] c \in Whitespace -> Advance(inp, InAttr("AfterAttributeName", inp, t, a))
      [] c = "/" -> Advance(inp, InTag("SelfClosingStartTag", inp, t))
      [] c = "=" -> Advance(inp, InAttr("BeforeAttributeValue", inp, t, a))
      [] c = ">" ->
            Added(a, Emit(TokenTag(add_attribute(t, a)),
                          Advance(inp, InData(inp))))
      [] OTHER ->
            Added(a, InAttr("AttributeName", inp, add_attribute(t, a),
                            AttributeNew))

AfterAttributeValueQuoted(inp, t) ==
    LET c == Nth0(inp) IN
    CASE c = "" -> Todo
      [] c \in Whitespace -> Advance(inp, InTag("BeforeAttributeName", inp, t))
      [] c = "/" -> Advance(inp, InTag("SelfClosingStartTag", inp, t))
      [] c = ">" -> Emit(TokenTag(t), Advance(inp, InData(inp)))
      [] OTHER -> Todo

\* A faulty variant of the AttributeName arm: whitespace after the name goes
\* straight to BeforeAttributeName, and the attribute is never merged.
AttributeNameDropsValueless(inp, t, a) ==
    LET c == Nth0(inp) IN
    CASE c \in Whitespace -> Advance(inp, InTag("BeforeAttributeName", inp, t))
      [] c = "" \/ c = "/" \/ c = ">" ->
            InAttr("AfterAttributeName", inp, t, a)
      [] c = "=" -> Advance(inp, InAttr("BeforeAttributeValue", inp, t, a))
      [] c = "NUL" -> Todo
      [] c \in {"\"", "'", "<"} -> Todo
      [] OTHER ->
            Advance(inp, InAttr("AttributeName", inp, t,
                [a EXCEPT !.name = Append(a.name, c)]))

AttributeName(inp, t, a) ==
    LET c == Nth0(inp) IN
    CASE c = "" \/ c \in Whitespace \/ c = "/" \/ c = ">" ->
            InAttr("AfterAttributeName", inp, t, a)
      [] c = "=" -> Advance(inp, InAttr("BeforeAttributeValue", inp, t, a))
      [] c = "NUL" -> Todo
      [] c \in {"\"", "'", "<"} -> Todo
      [] OTHER ->
            Advance(inp, InAttr("AttributeName", inp, t,
                [a EXCEPT !.name = Append(a.name, c)]))

\* A faulty variant of the AttributeValueDoubleQuoted arm: the characters of
\* the value are lowercased as those of a tag name are.
AttributeValueDoubleQuotedLowercased(inp, t, a) ==
    LET c == Nth0(inp) IN
    CASE c = "" -> Todo
      [] c = "\"" ->
            Added(a, Advance(inp, InTag("AfterAttributeValueQuoted", inp,
                                        add_attribute(t, a))))
      [] c = "&" -> Todo
      [] c = "NUL" -> Todo
      [] OTHER ->
            Advance(inp, InAttr("AttributeValueDoubleQuoted", inp, t,
                [a EXCEPT !.value = Append(a.value, to_ascii_lowercase(c))]))

AttributeValueDoubleQuoted(inp, t, a) ==
    LET c == Nth0(inp) IN
    CASE c = "" -> Todo
      [] c = "\"" ->
            Added(a, Advance(inp, InTag("AfterAttributeValueQuoted", inp,
                                        add_attribute(t, a))))
      [] c = "&" -> Todo
      [] c = "NUL" -> Todo
      [] OTHER ->
            Advance(inp, InAttr("AttributeValueDoubleQuoted", inp, t,
                [a EXCEPT !.value = Append(a.value, c)]))

AttributeValueSingleQuoted(inp, t, a) ==
    LET c == Nth0(inp) IN
    CASE c = "" -> Todo
      [] c = "'" ->
            Added(a, Advance(inp, InTag("AfterAttributeValueQuoted", inp,
                                        add_attribute(t, a))))
      [] c = "&" -> Todo
      [] c = "NUL" -> Todo
      [] OTHER ->
            Advance(inp, InAttr("AttributeValueSingleQuoted", inp, t,
                [a EXCEPT !.value = Append(a.value, c)]))

AttributeValueUnquoted(inp, t, a) ==
    LET c == Nth0(inp) IN
    CASE c = "" -> Todo
      [] c \in Whitespace ->
            Added(a, Advance(inp, InTag("BeforeAttributeName", inp,
                                        add_attribute(t, a))))
      [] c = "&" -> Todo
      [] c = ">" ->
            Added(a, Emit(TokenTag(add_attribute(t, a)),
                          Advance(inp, InData(inp))))
      [] c = "NUL" -> Todo
      [] c \in {"\"", "'", "<", "=", "GRAVE"} -> Todo
      [] OTHER ->
            Advance(inp, InAttr("AttributeValueUnquoted", inp, t,
                [a EXCEPT !.value = Append(a.value, c)]))

BeforeAttributeName(inp, t) ==
    LET c == Nth0(inp) IN
    CASE c = "" -> Todo
      [] c \in Whitespace -> Advance(inp, InTag("BeforeAttributeName", inp, t))
      [] c = "/" -> Advance(inp, InTag("SelfClosingStartTag", inp, t))
      [] c = ">" -> Emit(TokenTag(t), Advance(inp, InData(inp)))
      [] c = "=" -> Todo
      [] OTHER -> InAttr("AttributeName", inp, t, AttributeNew)

BeforeAttributeValue(inp, t, a) ==
    LET c == Nth0(inp) IN
    CASE c \in Whitespace ->
            Advance(inp, InAttr("BeforeAttributeValue", inp, t, a))
      [] c = "\"" ->
            Advance(inp, InAttr("AttributeValueDoubleQuoted", inp, t, a))
      [] c = "'" ->
            Advance(inp, InAttr("AttributeValueSingleQuoted", inp, t, a))
      [] c = ">" -> Todo
      [] OTHER -> InAttr("AttributeValueUnquoted", inp, t, a)

\* A faulty variant of the Data arm: at the end of input the machine stays in Data.
DataNeverTerminal(inp) ==
    LET c == Nth0(inp) IN
    CASE c = "" -> Emit(TokenEOF, InData(inp))
      [] c = "&" -> Todo
      [] c = "<" -> Advance(inp, Plain("TagOpen", inp))
      [] c = "NUL" -> Todo
      [] OTHER -> Emit(TokenChar(c), Advance(inp, InData(inp)))

Data(inp) ==
    LET c == Nth0(inp) IN
    CASE c = "" -> Emit(TokenEOF, Abort("none"))
      [] c = "&" -> Todo
      [] c = "<" -> Advance(inp, Plain("TagOpen", inp))
      [] c = "NUL" -> Todo
      [] OTHER -> Emit(TokenChar(c), Advance(inp, InData(inp)))

EndTagOpen(inp) ==
    LET c == Nth0(inp) IN
    CASE c = "" -> Todo
      [] IsLetterPattern(c) -> Fresh(InTag("TagName", inp, TagNew("End")))
      [] OTHER -> Todo

\* A faulty variant of the EOF arm: stepping EOF is taken for one more end of
\* input, which pushes Token::EOF and stays in EOF.
EOFQuiet == Emit(TokenEOF, Abort("none"))

\* panic!("Cannot call TokenizerState.step with EOF state")
EOF == Abort("panic")

\* A faulty variant of the SelfClosingStartTag arm: the flag is left as Tag::new set it.
SelfClosingStartTagFlagUnset(inp, t) ==
    LET c == Nth0(inp) IN
    CASE c = "" -> Todo
      [] c = ">" -> Emit(TokenTag(t), Advance(inp, InData(inp)))
      [] OTHER -> Todo

SelfClosingStartTag(inp, t) ==
    LET c == Nth0(inp) IN
    CASE c = "" -> Todo
      [] c = ">" ->
            Emit(TokenTag([t EXCEPT !.self_closing = TRUE]),
                 Advance(inp, InData(inp)))
      [] OTHER -> Todo

TagName(inp, t) ==
    LET c == Nth0(inp) IN
    CASE c = "" -> Todo
      [] c \in Whitespace -> Advance(inp, InTag("BeforeAttributeName", inp, t))
      [] c = "/" -> Advance(inp, InTag("SelfClosingStartTag", inp, t))
      [] c = ">" -> Emit(TokenTag(t), Advance(inp, InData(inp)))
      [] c = "NUL" -> Todo
      [] OTHER ->
            Advance(inp, InTag("TagName", inp,
                [t EXCEPT !.name = Append(t.name, to_ascii_lowercase(c))]))

TagOpen(inp) ==
    LET c == Nth0(inp) IN
    CASE c = "" -> Todo
      [] c = "!" -> Advance(inp, Plain("MarkupDeclarationOpen", inp))
      [] c = "/" -> Advance(inp, Plain("EndTagOpen", inp))
      [] c = "?" -> Todo
      [] IsLetterPattern(c) -> Fresh(InTag("TagName", inp, TagNew("Start")))
      [] OTHER -> Todo


\* doctype.system_identifier = Some(String::new())
SomeEmptySystemIdentifier(d) == [d EXCEPT !.system_identifier = <<(<<>>)>>]

Keyword_PUBLIC == <<"P","U","B","L","I","C">>

Keyword_SYSTEM == <<"S","Y","S","T","E","M">>

Keyword_DOCTYPE == <<"D","O","C","T","Y","P","E">>

Literal_CDATA == <<"[","C","D","A","T","A","[">>

AfterDoctypeName(inp, d) ==
    LET c == Nth0(inp) IN
    CASE c = "" -> Todo
      [] c \in Whitespace -> Advance(inp, InDoctype("AfterDoctypeName", inp, d))
      [] c = ">" -> Emit(TokenDoctype(d), Advance(inp, InData(inp)))
      [] OTHER ->
            IF ~IsCharBoundary(inp, 6) THEN Abort("slice")
            ELSE IF Uppercase(SliceTo(inp, 6)) = Keyword_PUBLIC
            THEN InDoctype("AfterDoctypePublicKeyword", SliceFrom(inp, 6), d)
            ELSE IF Uppercase(SliceTo(inp, 6)) = Keyword_SYSTEM
            THEN InDoctype("AfterDoctypeSystemKeyword", SliceFrom(inp, 6), d)
            ELSE Todo

AfterDoctypePublicKeyword(inp, d) ==
    LET c == Nth0(inp) IN
    CASE c = "" -> Todo
      [] c \in Whitespace -> Advance(inp, InDoctype("BeforeDoctypePublicIdentifier", inp, d))
      [] c = "\"" ->
            Advance(inp, InDoctype("DoctypePublicIdentifierDoubleQuoted", inp,
                                   SomeEmptySystemIdentifier(d)))
      [] c = "'" ->
            Advance(inp, InDoctype("DoctypePublicIdentifierSingleQuoted", inp,
                                   SomeEmptySystemIdentifier(d)))
      [] c = ">" -> Todo
      [] OTHER -> Todo

AfterDoctypePublicIdentifier(inp, d) ==
    LET c == Nth0(inp) IN
    CASE c = "" -> Todo
      [] c \in Whitespace ->
            Advance(inp, InDoctype("BetweenDoctypePublicAndSystemIdentifiers",
                                   inp, d))
      [] c = ">" -> Emit(TokenDoctype(d), Advance(inp, InData(inp)))
      [] c \in {"\"", "'"} -> Todo
      [] OTHER -> Todo

AfterDoctypeSystemKeyword(inp, d) ==
    LET c == Nth0(inp) IN
    CASE c = "" -> Todo
      [] c \in Whitespace -> Advance(inp, InDoctype("BeforeDoctypeSystemIdentifier", inp, d))
      [] c = "\"" ->
            Advance(inp, InDoctype("DoctypeSystemIdentifierDoubleQuoted", inp,
                                   SomeEmptySystemIdentifier(d)))
      [] c = "'" ->
            Advance(inp, InDoctype("DoctypeSystemIdentifierSingleQuoted", inp,
                                   SomeEmptySystemIdentifier(d)))
      [] c = ">" -> Todo
      [] OTHER -> Todo

AfterDoctypeSystemIdentifier(inp, d) ==
    LET c == Nth0(inp) IN
    CASE c = "" -> Todo
      [] c \in Whitespace ->
            Advance(inp, InDoctype("AfterDoctypeSystemIdentifier", inp, d))
      [] c = ">" -> Emit(TokenDoctype(d), Advance(inp, InData(inp)))
      [] OTHER -> Todo

BeforeDoctypeName(inp) ==
    LET c == Nth0(inp) IN
    CASE c = "" -> Todo
      [] c \in Whitespace -> Advance(inp, Plain("BeforeDoctypeName", inp))
      [] c = ">" -> Todo
      [] c = "NUL" -> Todo
      [] OTHER ->
            Advance(inp, InDoctype("DoctypeName", inp,
                [DoctypeNew EXCEPT !.name = <<to_ascii_lowercase(c)>>]))

BeforeDoctypePublicIdentifier(inp, d) ==
    LET c == Nth0(inp) IN
    CASE c = "" -> Todo
      [] c \in Whitespace -> Advance(inp, InDoctype("BeforeDoctypePublicIdentifier", inp, d))
      [] c = "\"" ->
            Advance(inp, InDoctype("DoctypePublicIdentifierDoubleQuoted", inp,
                                   SomeEmptySystemIdentifier(d)))
      [] c = "'" ->
            Advance(inp, InDoctype("DoctypePublicIdentifierSingleQuoted", inp,
                                   SomeEmptySystemIdentifier(d)))
      [] c = ">" -> Todo
      [] OTHER -> Todo

\* A faulty variant of the BeforeDoctypeSystemIdentifier arm: the quote arms
\* initialise the public identifier where the system identifier is meant.
BeforeDoctypeSystemIdentifierWrongField(inp, d) ==
    LET c == Nth0(inp) IN
    CASE c = "" -> Todo
      [] c \in Whitespace -> Advance(inp, InDoctype("BeforeDoctypeSystemIdentifier", inp, d))
      [] c = "\"" ->
            Advance(inp, InDoctype("DoctypeSystemIdentifierDoubleQuoted", inp,
                                   [d EXCEPT !.public_identifier = <<(<<>>)>>]))
      [] c = "'" ->
            Advance(inp, InDoctype("DoctypeSystemIdentifierSingleQuoted", inp,
                                   [d EXCEPT !.public_identifier = <<(<<>>)>>]))
      [] c = ">" -> Todo
      [] OTHER -> Todo

BeforeDoctypeSystemIdentifier(inp, d) ==
    LET c == Nth0(inp) IN
    CASE c = "" -> Todo
      [] c \in Whitespace -> Advance(inp, InDoctype("BeforeDoctypeSystemIdentifier", inp, d))
      [] c = "\"" ->
            Advance(inp, InDoctype("DoctypeSystemIdentifierDoubleQuoted", inp,
                                   SomeEmptySystemIdentifier(d)))
      [] c = "'" ->
            Advance(inp, InDoctype("DoctypeSystemIdentifierSingleQuoted", inp,
                                   SomeEmptySystemIdentifier(d)))
      [] c = ">" -> Todo
      [] OTHER -> Todo

BetweenDoctypePublicAndSystemIdentifiers(inp, d) ==
    LET c == Nth0(inp) IN
    CASE c = "" -> Todo
      [] c \in Whitespace ->
            Advance(inp, InDoctype("BetweenDoctypePublicAndSystemIdentifiers",
                                   inp, d))
      [] c = ">" -> Emit(TokenDoctype(d), Advance(inp, InData(inp)))
      [] c = "\"" ->
            Advance(inp, InDoctype("DoctypeSystemIdentifierDoubleQuoted", inp,
                                   SomeEmptySystemIdentifier(d)))
      [] c = "'" ->
            Advance(inp, InDoctype("DoctypeSystemIdentifierSingleQuoted", inp,
                                   SomeEmptySystemIdentifier(d)))
      [] OTHER -> Todo

Doctype(inp) ==
    LET c == Nth0(inp) IN
    CASE c = "" -> Todo
      [] c \in Whitespace -> Advance(inp, Plain("BeforeDoctypeName", inp))
      [] c = ">" -> Plain("BeforeDoctypeName", inp)
      [] OTHER -> Todo

DoctypeName(inp, d) ==
    LET c == Nth0(inp) IN
    CASE c = "" -> Todo
      [] c \in Whitespace -> Advance(inp, InDoctype("AfterDoctypeName", inp, d))
      [] c = ">" -> Emit(TokenDoctype(d), Advance(inp, InData(inp)))
      [] c = "NUL" -> Todo
      [] OTHER ->
            Advance(inp, InDoctype("DoctypeName", inp,
                [d EXCEPT !.name = Append(d.name, to_ascii_lowercase(c))]))

DoctypePublicIdentifierDoubleQuoted(inp, d) ==
    LET c == Nth0(inp) IN
    CASE c = "" -> Todo
      [] c = "\"" -> Advance(inp, InDoctype("AfterDoctypePublicIdentifier", inp, d))
      [] c = ">" -> Todo
      [] c = "NUL" -> Todo
      [] OTHER ->
            IF d.public_identifier = <<>>
            THEN Abort("panic")
            ELSE Advance(inp, InDoctype("DoctypePublicIdentifierDoubleQuoted", inp,
                    [d EXCEPT !.public_identifier = <<Append(d.public_identifier[1], c)>>]))

DoctypePublicIdentifierSingleQuoted(inp, d) ==
    LET c == Nth0(inp) IN
    CASE c = "" -> Todo
      [] c = "'" -> Advance(inp, InDoctype("AfterDoctypePublicIdentifier", inp, d))
      [] c = ">" -> Todo
      [] c = "NUL" -> Todo
      [] OTHER ->
            IF d.public_identifier = <<>>
            THEN Abort("panic")
            ELSE Advance(inp, InDoctype("DoctypePublicIdentifierSingleQuoted", inp,
                    [d EXCEPT !.public_identifier = <<Append(d.public_identifier[1], c)>>]))

DoctypeSystemIdentifierDoubleQuoted(inp, d) ==
    LET c == Nth0(inp) IN
    CASE c = "" -> Todo
      [] c = "\"" -> Advance(inp, InDoctype("AfterDoctypeSystemIdentifier", inp, d))
      [] c = ">" -> Todo
      [] c = "NUL" -> Todo
      [] OTHER ->
            IF d.system_identifier = <<>>
            THEN Abort("panic")
            ELSE Advance(inp, InDoctype("DoctypeSystemIdentifierDoubleQuoted", inp,
                    [d EXCEPT !.system_identifier = <<Append(d.system_identifier[1], c)>>]))

DoctypeSystemIdentifierSingleQuoted(inp, d) ==
    LET c == Nth0(inp) IN
    CASE c = "" -> Todo
      [] c = "'" -> Advance(inp, InDoctype("AfterDoctypeSystemIdentifier", inp, d))
      [] c = ">" -> Todo
      [] c = "NUL" -> Todo
      [] OTHER ->
            IF d.system_identifier = <<>>
            THEN Abort("panic")
            ELSE Advance(inp, InDoctype("DoctypeSystemIdentifierSingleQuoted", inp,
                    [d EXCEPT !.system_identifier = <<Append(d.system_identifier[1], c)>>]))

\* A faulty variant of MarkupDeclarationOpen: the Doctype state is handed
\* &input[6..], the last letter of the keyword included.
MarkupDeclarationOpenShortSkip(inp) ==
    IF ~IsCharBoundary(inp, 2) THEN Abort("slice")
    ELSE IF SliceTo(inp, 2) = <<"-", "-">> THEN Todo
    ELSE IF ~IsCharBoundary(inp, 7) THEN Abort("slice")
    ELSE IF Uppercase(SliceTo(inp, 7)) = Keyword_DOCTYPE
    THEN Plain("Doctype", SliceFrom(inp, 6))
    ELSE IF SliceTo(inp, 7) = Literal_CDATA THEN Todo
    ELSE Todo

\* The lookahead of MarkupDeclarationOpen: &input[0..2], then &input[0..7]
MarkupDeclarationOpen(inp) ==
    IF ~IsCharBoundary(inp, 2) THEN Abort("slice")
    ELSE IF SliceTo(inp, 2) = <<"-", "-">> THEN Todo
    ELSE IF ~IsCharBoundary(inp, 7) THEN Abort("slice")
    ELSE IF Uppercase(SliceTo(inp, 7)) = Keyword_DOCTYPE
    THEN Plain("Doctype", SliceFrom(inp, 7))
    ELSE IF SliceTo(inp, 7) = Literal_CDATA THEN Todo
    ELSE Todo

-----------------------------------------------------------------------------
(* The inputs the tokenizer is run on: every string of at most MaxLen      *)
(* characters over Sigma, every tag built from the parts below with at     *)
(* most MaxAttrs attributes, and the inputs the specification and the      *)
(* sources name.                                                           *)

Sigma ==
    {"<", ">", "/", "=", " ", "\"", "'", "!", "&", "NUL",
     "a", "B", "z", "1", "U+00E9"}

ShortInputs == UNION {[1..n -> Sigma] : n \in 0..MaxLen}

TagOpens == {<<"<">>, <<"<", "/">>}

TagNames == {<<"a">>, <<"D", "I", "V">>}

AttributeForms ==
    {<<" ", "i", "d", "=", "1">>,
     <<" ", "i", "d", "=", "2">>,
     <<" ", "I", "D", "=", "3">>,
     <<" ", "c">>,
     <<" ", "d", "=", "\"", "x", "\"">>,
     <<" ", "e", " ", "=", " ", "'", "y", "'">>,
     <<" ", "f", "=", "/">>}

TagCloses == {<<">">>, <<"/", ">">>, <<" ", ">">>, <<" ", "/", ">">>, <<>>}

RECURSIVE Concat(_)
Concat(parts) ==
    IF parts = <<>> THEN <<>> ELSE Head(parts) \o Concat(Tail(parts))

AttributeLists == UNION {[1..n -> AttributeForms] : n \in 0..MaxAttrs}

TagInputs ==
    {o \o n \o Concat(al) \o c :
        o \in TagOpens, n \in TagNames, al \in AttributeLists, c \in TagCloses}

\* spec.md section 8: text and nested tags
Input_nested ==
    <<"<","p",">","a","<","b",">","c","<","/","b",">","<","/","p",">">>

\* spec.md section 8: duplicate attribute
Input_duplicate_id ==
    <<"<","i","n","p","u","t"," ","i","d","=","1"," ","i","d","=","2",">">>

\* <br/>
Input_br_slash ==
    <<"<","b","r","/",">">>

\* <br>
Input_br ==
    <<"<","b","r",">">>

\* <DIV>
Input_DIV ==
    <<"<","D","I","V",">">>

\* </br/>
Input_end_br_slash ==
    <<"<","/","b","r","/",">">>

\* <a HREF=x>
Input_a_HREF ==
    <<"<","a"," ","H","R","E","F","=","x",">">>

\* <div
Input_div_unclosed ==
    <<"<","d","i","v">>

\* <div id
Input_attr_unclosed ==
    <<"<","d","i","v"," ","i","d">>

\* a&b
Input_amp ==
    <<"a","&","b">>

\* the input of main, src/src/main.rs:302
Input_main ==
    <<"<","d","i","v",">","<","i","n","p","u","t"," ","i","d","=","c","h",
      "e","c","k"," ","d","i","s","a","b","l","e","d"," ","t","y","p","e",
      "=","\"","c","h","e","c","k","b","o","x","\""," ","n","a","m","e","=",
      "'","v","a","l","i","d","'","/",">","<","/","d","i","v",">">>

\* <input disabled/>
Input_disabled_slash ==
    <<"<","i","n","p","u","t"," ","d","i","s","a","b","l","e","d","/",">">>

\* <!DOCTYPE html>
Input_doctype_html ==
    <<"<","!","D","O","C","T","Y","P","E"," ","h","t","m","l",">">>

\* <!doctype HTML>
Input_doctype_lower ==
    <<"<","!","d","o","c","t","y","p","e"," ","H","T","M","L",">">>

\* <!DOCTYPE html PUBLIC "P" "S">
Input_doctype_public ==
    <<"<","!","D","O","C","T","Y","P","E"," ","h","t","m","l"," ","P","U",
      "B","L","I","C"," ","\"","P","\""," ","\"","S","\"",">">>

\* <!DOCTYPE html PUBLIC "" "S">
Input_doctype_public_empty ==
    <<"<","!","D","O","C","T","Y","P","E"," ","h","t","m","l"," ","P","U",
      "B","L","I","C"," ","\"","\""," ","\"","S","\"",">">>

\* <!DOCTYPE html public'' 'S' >
Input_doctype_public_empty_single ==
    <<"<","!","D","O","C","T","Y","P","E"," ","h","t","m","l"," ","p","u",
      "b","l","i","c","'","'"," ","'","S","'"," ",">">>

\* <!DOCTYPE html PUBLIC "">
Input_doctype_public_only ==
    <<"<","!","D","O","C","T","Y","P","E"," ","h","t","m","l"," ","P","U",
      "B","L","I","C"," ","\"","\"",">">>

\* <!DOCTYPE html PUBLIC 'P'>
Input_doctype_public_single ==
    <<"<","!","D","O","C","T","Y","P","E"," ","h","t","m","l"," ","P","U",
      "B","L","I","C"," ","'","P","'",">">>

\* <!DOCTYPE html PUBLIC"P">
Input_doctype_public_nospace ==
    <<"<","!","D","O","C","T","Y","P","E"," ","h","t","m","l"," ","P","U",
      "B","L","I","C","\"","P","\"",">">>

\* <!DOCTYPE html SYSTEM "S">
Input_doctype_system ==
    <<"<","!","D","O","C","T","Y","P","E"," ","h","t","m","l"," ","S","Y",
      "S","T","E","M"," ","\"","S","\"",">">>

\* <!DOCTYPE html system 'S' >
Input_doctype_system_single ==
    <<"<","!","D","O","C","T","Y","P","E"," ","h","t","m","l"," ","s","y",
      "s","t","e","m"," ","'","S","'"," ",">">>

\* <!DOCTYPE html SYSTEM'S'>
Input_doctype_system_nospace ==
    <<"<","!","D","O","C","T","Y","P","E"," ","h","t","m","l"," ","S","Y",
      "S","T","E","M","'","S","'",">">>

\* <!DOCTYPE html SYSTEM"S">
Input_doctype_system_nospace_double ==
    <<"<","!","D","O","C","T","Y","P","E"," ","h","t","m","l"," ","S","Y",
      "S","T","E","M","\"","S","\"",">">>

\* <!DOCTYPE html PUBLIC ""  'S'>
Input_doctype_between ==
    <<"<","!","D","O","C","T","Y","P","E"," ","h","t","m","l"," ","P","U",
      "B","L","I","C"," ","\"","\""," "," ","'","S","'",">">>

\* <!DOCTYPE html FOO>
Input_doctype_foo ==
    <<"<","!","D","O","C","T","Y","P","E"," ","h","t","m","l"," ","F","O",
      "O",">">>

\* <!DOCTYPE html PUBLIC>
Input_doctype_public_bare ==
    <<"<","!","D","O","C","T","Y","P","E"," ","h","t","m","l"," ","P","U",
      "B","L","I","C",">">>

\* <!DOCTYPE>
Input_doctype_bare ==
    <<"<","!","D","O","C","T","Y","P","E",">">>

\* <!DOCTYPE html P>
Input_doctype_short_keyword ==
    <<"<","!","D","O","C","T","Y","P","E"," ","h","t","m","l"," ","P",">">>

\* <!DOCTYPE html
Input_doctype_unclosed ==
    <<"<","!","D","O","C","T","Y","P","E"," ","h","t","m","l">>

\* <!DOCTYPE html U+00E91234>
Input_doctype_wide ==
    <<"<","!","D","O","C","T","Y","P","E"," ","h","t","m","l"," ","U+00E9",
      "1","2","3","4",">">>

\* <!
Input_bang ==
    <<"<","!">>

\* <!-
Input_bang_dash ==
    <<"<","!","-">>

\* <!--text-->
Input_comment ==
    <<"<","!","-","-","t","e","x","t","-","-",">">>

\* <![CDATA[x]]>
Input_cdata ==
    <<"<","!","[","C","D","A","T","A","[","x","]","]",">">>

\* <!ELEMENT br>
Input_bogus ==
    <<"<","!","E","L","E","M","E","N","T"," ","b","r",">">>

\* <?xml?>
Input_pi ==
    <<"<","?","x","m","l","?",">">>

\* &#65;
Input_numeric_reference ==
    <<"&","#","6","5",";">>

\* &amp;
Input_named_reference ==
    <<"&","a","m","p",";">>

\* a\0b
Input_nul_text ==
    <<"a","NUL","b">>

\* <a b=c<d>
Input_lt_in_unquoted ==
    <<"<","a"," ","b","=","c","<","d",">">>

\* <a b=c`d>
Input_grave_in_unquoted ==
    <<"<","a"," ","b","=","c","GRAVE","d",">">>

\* aU+00E9
Input_wide_text ==
    <<"a","U+00E9">>

\* <a b="U+20AC">
Input_wide_value ==
    <<"<","a"," ","b","=","\"","U+20AC","\"",">">>

\* <z>
Input_z ==
    <<"<","z",">">>

\* </Z>
Input_end_Z ==
    <<"<","/","Z",">">>

\* <a\tb='1'\tc>x
Input_tab_separated ==
    <<"<","a","\t","b","=","'","1","'","\t","c",">","x">>

Examples ==
    {Input_nested,
     Input_duplicate_id,
     Input_br_slash,
     Input_br,
     Input_DIV,
     Input_end_br_slash,
     Input_a_HREF,
     Input_div_unclosed,
     Input_attr_unclosed,
     Input_amp,
     Input_main,
     Input_disabled_slash,
     Input_doctype_html,
     Input_doctype_lower,
     Input_doctype_public,
     Input_doctype_public_empty,
     Input_doctype_public_empty_single,
     Input_doctype_public_only,
     Input_doctype_public_single,
     Input_doctype_public_nospace,
     Input_doctype_system,
     Input_doctype_system_single,
     Input_doctype_system_nospace,
     Input_doctype_system_nospace_double,
     Input_doctype_between,
     Input_doctype_foo,
     Input_doctype_public_bare,
     Input_doctype_bare,
     Input_doctype_short_keyword,
     Input_doctype_unclosed,
     Input_doctype_wide,
     Input_bang,
     Input_bang_dash,
     Input_comment,
     Input_cdata,
     Input_bogus,
     Input_pi,
     Input_numeric_reference,
     Input_named_reference,
     Input_nul_text,
     Input_lt_in_unquoted,
     Input_grave_in_unquoted,
     Input_wide_text,
     Input_wide_value,
     Input_z,
     Input_end_Z,
     Input_tab_separated}

\* Attributes whose values are quoted, with either quote
QuotedAttributeForms ==
    {<<" ", "d", "=", "\"", "x", "\"">>,
     <<" ", "e", "=", "'", "Y", "'">>,
     <<" ", "g", "=", "'", "x", "\"", "y", "'">>}

QuotedAttributeLists ==
    UNION {[1..n -> QuotedAttributeForms] : n \in 0..MaxAttrs}

\* Start tags that use only quoted attributes
QuotedInputs ==
    {<<"<">> \o n \o Concat(al) \o c :
        n \in TagNames, al \in QuotedAttributeLists,
        c \in {<<">">>, <<"/", ">">>}}

\* Every upper/lower-case spelling of a keyword
RECURSIVE CaseSpellings(_)
CaseSpellings(k) ==
    IF k = <<>> THEN {<<>>}
    ELSE {<<c>> \o r :
            c \in {to_ascii_lowercase(Head(k)), to_ascii_uppercase(Head(k))},
            r \in CaseSpellings(Tail(k))}

\* <!k html>
DoctypeSpelled(k) == <<"<", "!">> \o k \o <<" ", "h", "t", "m", "l", ">">>

\* <!DOCTYPE html k "S">
SystemSpelled(k) ==
    <<"<","!","D","O","C","T","Y","P","E"," ","h","t","m","l"," ">> \o k
    \o <<" ", "\"", "S", "\"", ">">>

\* <!DOCTYPE html k "" "S">
PublicSpelled(k) ==
    <<"<","!","D","O","C","T","Y","P","E"," ","h","t","m","l"," ">> \o k
    \o <<" ", "\"", "\"", " ", "\"", "S", "\"", ">">>

KeywordInputs ==
    {DoctypeSpelled(k) : k \in CaseSpellings(Keyword_DOCTYPE)}
    \cup {SystemSpelled(k) : k \in CaseSpellings(Keyword_SYSTEM)}
    \cup {PublicSpelled(k) : k \in CaseSpellings(Keyword_PUBLIC)}

Inputs ==
    ShortInputs \cup TagInputs \cup Examples \cup QuotedInputs
    \cup KeywordInputs

-----------------------------------------------------------------------------
(* The Tokenizer: new, step, and the Iterator's next *)

\* Tokenizer::new(input)
Init ==
    /\ source \in Inputs
    /\ state = "Data"
    /\ input = source
    /\ tag = NoTag
    /\ attribute = NoAttribute
    /\ doctype = NoDoctype
    /\ tokens = <<>>
    /\ pc = "idle"
    /\ fault = "none"
    /\ out = <<>>
    /\ endpos = <<>>
    /\ seen = <<>>

\* The characters of the source read once the current one has been read
ReadSoFar == Len(source) - Len(input) + (IF input = <<>> THEN 0 ELSE 1)

\* Tokenizer::step: self.state = state.step(&mut self.tokens), r being what
\* state.step did
Apply(r) ==
    /\ state' = r.state
    /\ input' = r.input
    /\ tag' = r.tag
    /\ attribute' = r.attribute
    /\ doctype' = r.doctype
    /\ tokens' = tokens \o r.emit
    /\ fault' = r.fault
    /\ pc' = IF r.fault = "none" THEN "next" ELSE "panicked"
    /\ endpos' = endpos \o [i \in DOMAIN r.emit |-> ReadSoFar]
    /\ seen' = IF r.fresh THEN <<>> ELSE seen \o r.added
    /\ UNCHANGED <<source, out>>

\* A faulty variant of the loop condition of next(): the queue is not tested.
LoopingEager == state # "EOF"

\* while self.tokens.is_empty() && !matches!(self.state, TokenizerState::EOF)
Looping == tokens = <<>> /\ state # "EOF"

\* The body of the loop is entered in state st
Stepping(st) == pc = "next" /\ Looping /\ state = st

StepAfterAttributeName ==
    Stepping("AfterAttributeName") /\ Apply(AfterAttributeName(input, tag, attribute))

StepAfterAttributeValueQuoted ==
    Stepping("AfterAttributeValueQuoted") /\ Apply(AfterAttributeValueQuoted(input, tag))

StepAfterDoctypeName ==
    Stepping("AfterDoctypeName") /\ Apply(AfterDoctypeName(input, doctype))

StepAfterDoctypePublicIdentifier ==
    Stepping("AfterDoctypePublicIdentifier") /\ Apply(AfterDoctypePublicIdentifier(input, doctype))

StepAfterDoctypePublicKeyword ==
    Stepping("AfterDoctypePublicKeyword") /\ Apply(AfterDoctypePublicKeyword(input, doctype))

StepAfterDoctypeSystemIdentifier ==
    Stepping("AfterDoctypeSystemIdentifier") /\ Apply(AfterDoctypeSystemIdentifier(input, doctype))

StepAfterDoctypeSystemKeyword ==
    Stepping("AfterDoctypeSystemKeyword") /\ Apply(AfterDoctypeSystemKeyword(input, doctype))

StepAttributeName ==
    Stepping("AttributeName") /\ Apply(AttributeName(input, tag, attribute))

StepAttributeValueDoubleQuoted ==
    Stepping("AttributeValueDoubleQuoted") /\ Apply(AttributeValueDoubleQuoted(input, tag, attribute))

StepAttributeValueSingleQuoted ==
    Stepping("AttributeValueSingleQuoted") /\ Apply(AttributeValueSingleQuoted(input, tag, attribute))

StepAttributeValueUnquoted ==
    Stepping("AttributeValueUnquoted") /\ Apply(AttributeValueUnquoted(input, tag, attribute))

StepBeforeAttributeName ==
    Stepping("BeforeAttributeName") /\ Apply(BeforeAttributeName(input, tag))

StepBeforeAttributeValue ==
    Stepping("BeforeAttributeValue") /\ Apply(BeforeAttributeValue(input, tag, attribute))

StepBeforeDoctypeName ==
    Stepping("BeforeDoctypeName") /\ Apply(BeforeDoctypeName(input))

StepBeforeDoctypePublicIdentifier ==
    Stepping("BeforeDoctypePublicIdentifier") /\ Apply(BeforeDoctypePublicIdentifier(input, doctype))

StepBeforeDoctypeSystemIdentifier ==
    Stepping("BeforeDoctypeSystemIdentifier") /\ Apply(BeforeDoctypeSystemIdentifier(input, doctype))

StepBetweenDoctypePublicAndSystemIdentifiers ==
    Stepping("BetweenDoctypePublicAndSystemIdentifiers") /\ Apply(BetweenDoctypePublicAndSystemIdentifiers(input, doctype))

StepData ==
    Stepping("Data") /\ Apply(Data(input))

StepDoctype ==
    Stepping("Doctype") /\ Apply(Doctype(input))

StepDoctypeName ==
    Stepping("DoctypeName") /\ Apply(DoctypeName(input, doctype))

StepDoctypePublicIdentifierDoubleQuoted ==
    Stepping("DoctypePublicIdentifierDoubleQuoted") /\ Apply(DoctypePublicIdentifierDoubleQuoted(input, doctype))

StepDoctypePublicIdentifierSingleQuoted ==
    Stepping("DoctypePublicIdentifierSingleQuoted") /\ Apply(DoctypePublicIdentifierSingleQuoted(input, doctype))

StepDoctypeSystemIdentifierDoubleQuoted ==
    Stepping("DoctypeSystemIdentifierDoubleQuoted") /\ Apply(DoctypeSystemIdentifierDoubleQuoted(input, doctype))

StepDoctypeSystemIdentifierSingleQuoted ==
    Stepping("DoctypeSystemIdentifierSingleQuoted") /\ Apply(DoctypeSystemIdentifierSingleQuoted(input, doctype))

StepEndTagOpen ==
    Stepping("EndTagOpen") /\ Apply(EndTagOpen(input))

StepMarkupDeclarationOpen ==
    Stepping("MarkupDeclarationOpen") /\ Apply(MarkupDeclarationOpen(input))

StepSelfClosingStartTag ==
    Stepping("SelfClosingStartTag") /\ Apply(SelfClosingStartTag(input, tag))

StepTagName ==
    Stepping("TagName") /\ Apply(TagName(input, tag))

StepTagOpen ==
    Stepping("TagOpen") /\ Apply(TagOpen(input))

NoneCount == Cardinality({i \in DOMAIN out : out[i].type = "None"})

\* The consumer calls next(); it may stop pulling at any time.
Pull ==
    /\ pc = "idle"
    /\ NoneCount < MaxNone
    /\ pc' = "next"
    /\ UNCHANGED <<source, state, input, tag, attribute, doctype, tokens,
                   fault, out, endpos, seen>>

\* A faulty variant of pop_front: the front token is returned but stays queued.
pop_front_kept(q) ==
    IF q = <<>> THEN [item |-> None, rest |-> q]
    ELSE [item |-> Head(q), rest |-> q]

\* self.tokens.pop_front()
pop_front(q) ==
    IF q = <<>> THEN [item |-> None, rest |-> q]
    ELSE [item |-> Head(q), rest |-> Tail(q)]

\* The loop of next() is over: next() returns self.tokens.pop_front()
Return ==
    /\ pc = "next"
    /\ ~Looping
    /\ out' = Append(out, pop_front(tokens).item)
    /\ tokens' = pop_front(tokens).rest
    /\ pc' = "idle"
    /\ UNCHANGED <<source, state, input, tag, attribute, doctype, fault,
                   endpos, seen>>

Step ==
    \/ StepAfterAttributeName
    \/ StepAfterAttributeValueQuoted
    \/ StepAfterDoctypeName
    \/ StepAfterDoctypePublicIdentifier
    \/ StepAfterDoctypePublicKeyword
    \/ StepAfterDoctypeSystemIdentifier
    \/ StepAfterDoctypeSystemKeyword
    \/ StepAttributeName
    \/ StepAttributeValueDoubleQuoted
    \/ StepAttributeValueSingleQuoted
    \/ StepAttributeValueUnquoted
    \/ StepBeforeAttributeName
    \/ StepBeforeAttributeValue
    \/ StepBeforeDoctypeName
    \/ StepBeforeDoctypePublicIdentifier
    \/ StepBeforeDoctypeSystemIdentifier
    \/ StepBetweenDoctypePublicAndSystemIdentifiers
    \/ StepData
    \/ StepDoctype
    \/ StepDoctypeName
    \/ StepDoctypePublicIdentifierDoubleQuoted
    \/ StepDoctypePublicIdentifierSingleQuoted
    \/ StepDoctypeSystemIdentifierDoubleQuoted
    \/ StepDoctypeSystemIdentifierSingleQuoted
    \/ StepEndTagOpen
    \/ StepMarkupDeclarationOpen
    \/ StepSelfClosingStartTag
    \/ StepTagName
    \/ StepTagOpen

Next == Pull \/ Step \/ Return

Spec == Init /\ [][Next]_vars

\* The scheduling of the code: next() runs its loop to completion (nothing
\* suspends a step or the return), and the consumer is a
\* `for token in tokenizer` loop, which pulls until next() returns None.
FairSpec ==
    Spec /\ WF_vars(Step) /\ WF_vars(Return) /\ WF_vars(Pull)

\* TokenizerState::step: the match on the variant
step(s) ==
    CASE s.state = "AfterAttributeName" ->
            AfterAttributeName(s.input, s.tag, s.attribute)
      [] s.state = "AfterAttributeValueQuoted" ->
            AfterAttributeValueQuoted(s.input, s.tag)
      [] s.state = "AfterDoctypeName" ->
            AfterDoctypeName(s.input, s.doctype)
      [] s.state = "AfterDoctypePublicKeyword" ->
            AfterDoctypePublicKeyword(s.input, s.doctype)
      [] s.state = "AfterDoctypePublicIdentifier" ->
            AfterDoctypePublicIdentifier(s.input, s.doctype)
      [] s.state = "AfterDoctypeSystemKeyword" ->
            AfterDoctypeSystemKeyword(s.input, s.doctype)
      [] s.state = "AfterDoctypeSystemIdentifier" ->
            AfterDoctypeSystemIdentifier(s.input, s.doctype)
      [] s.state = "AttributeName" ->
            AttributeName(s.input, s.tag, s.attribute)
      [] s.state = "AttributeValueDoubleQuoted" ->
            AttributeValueDoubleQuoted(s.input, s.tag, s.attribute)
      [] s.state = "AttributeValueSingleQuoted" ->
            AttributeValueSingleQuoted(s.input, s.tag, s.attribute)
      [] s.state = "AttributeValueUnquoted" ->
            AttributeValueUnquoted(s.input, s.tag, s.attribute)
      [] s.state = "BeforeAttributeName" ->
            BeforeAttributeName(s.input, s.tag)
      [] s.state = "BeforeAttributeValue" ->
            BeforeAttributeValue(s.input, s.tag, s.attribute)
      [] s.state = "BeforeDoctypeName" ->
            BeforeDoctypeName(s.input)
      [] s.state = "BeforeDoctypePublicIdentifier" ->
            BeforeDoctypePublicIdentifier(s.input, s.doctype)
      [] s.state = "BeforeDoctypeSystemIdentifier" ->
            BeforeDoctypeSystemIdentifier(s.input, s.doctype)
      [] s.state = "BetweenDoctypePublicAndSystemIdentifiers" ->
            BetweenDoctypePublicAndSystemIdentifiers(s.input, s.doctype)
      [] s.state = "Data" -> Data(s.input)
      [] s.state = "Doctype" -> Doctype(s.input)
      [] s.state = "DoctypeName" -> DoctypeName(s.input, s.doctype)
      [] s.state = "DoctypePublicIdentifierDoubleQuoted" ->
            DoctypePublicIdentifierDoubleQuoted(s.input, s.doctype)
      [] s.state = "DoctypePublicIdentifierSingleQuoted" ->
            DoctypePublicIdentifierSingleQuoted(s.input, s.doctype)
      [] s.state = "DoctypeSystemIdentifierDoubleQuoted" ->
            DoctypeSystemIdentifierDoubleQuoted(s.input, s.doctype)
      [] s.state = "DoctypeSystemIdentifierSingleQuoted" ->
            DoctypeSystemIdentifierSingleQuoted(s.input, s.doctype)
      [] s.state = "EndTagOpen" -> EndTagOpen(s.input)
      [] s.state = "EOF" -> EOF
      [] s.state = "MarkupDeclarationOpen" -> MarkupDeclarationOpen(s.input)
      [] s.state = "SelfClosingStartTag" ->
            SelfClosingStartTag(s.input, s.tag)
      [] s.state = "TagName" -> TagName(s.input, s.tag)
      [] s.state = "TagOpen" -> TagOpen(s.input)

\* The state of the tokenizer, as TokenizerState::step receives it
Current == To(state, input, tag, attribute, doctype)

\* state = state.step(&mut tokens), by a caller that holds the state and the
\* queue itself and steps whatever state it has, EOF included
DirectStep ==
    /\ pc # "panicked"
    /\ Apply(step(Current))

DirectSpec == Init /\ [][DirectStep]_vars

\* The iterator pulled until it returns None or panics, acc being the
\* tokens next() has returned so far.  A step pushes at most one token
\* before the loop of next() ends, so every token pushed by a step that
\* returns is yielded; what a panicking step pushed is lost with the panic.
RECURSIVE Collect(_, _)
Collect(s, acc) ==
    IF s.state = "EOF" THEN [tokens |-> acc, fault |-> "none"]
    ELSE LET r == step(s)
         IN  IF r.fault # "none" THEN [tokens |-> acc, fault |-> r.fault]
             ELSE Collect(r, acc \o r.emit)

\* Tokenizer::new(inp) collected by a `for token in tokenizer` loop
Tokenize(inp) == Collect(InData(inp), <<>>)

-----------------------------------------------------------------------------
(* Vocabulary of the properties *)

\* The tokens next() has returned (Some(token)), in order
Yielded == SelectSeq(out, LAMBDA t : t.type # "None")

\* Every token pushed so far, in the order of the pushes
Pushed == Yielded \o tokens

IsPrefix(s, t) == Len(s) <= Len(t) /\ SubSeq(t, 1, Len(s)) = s

NoUpper(s) == \A i \in DOMAIN s : ~IsUpper(s[i])

Panicked == pc = "panicked"

\* next() has returned the EndOfInput token
EndOfInputYielded == \E i \in DOMAIN out : out[i].type = "EOF"

\* next() has returned None: the iterator has been pulled to exhaustion
Exhausted == \E i \in DOMAIN out : out[i].type = "None"

StartTagNamed(nm) == TokenTag([TagNew("Start") EXCEPT !.name = nm])

EndTagNamed(nm) == TokenTag([TagNew("End") EXCEPT !.name = nm])

\* The attributes a tag keeps when each of `attrs` is merged in turn and a
\* repeated name is discarded
RECURSIVE FirstWins(_)
FirstWins(attrs) ==
    IF attrs = <<>> THEN <<>>
    ELSE LET before == FirstWins(SubSeq(attrs, 1, Len(attrs) - 1))
             a == attrs[Len(attrs)]
         IN  IF \E i \in DOMAIN before : before[i].name = a.name
             THEN before
             ELSE Append(before, a)

\* A token is in progress: the state carries a Tag or a Doctype
MidConstruct == tag # NoTag \/ doctype # NoDoctype

-----------------------------------------------------------------------------
(* C1..C10 *)

\* C1: for every input, pulling the iterator to exhaustion never aborts, and
\* the tokens yielded end with exactly one EndOfInput token: EndOfInput is
\* yielded before the first None, it occurs nowhere else, and no token
\* follows it.
C1_EndsWithOneEndOfInput ==
    /\ ~Panicked
    /\ \A i \in DOMAIN out :
          /\ out[i].type = "EOF" =>
                /\ \A j \in 1..(i - 1) : out[j].type \notin {"EOF", "None"}
                /\ \A j \in (i + 1)..Len(out) : out[j].type = "None"
          /\ out[i].type = "None" => \E j \in 1..(i - 1) : out[j].type = "EOF"

\* C2: totality: no input drives step into a fatal or unimplemented branch
\* (todo!(), panic!(), or a slice that is out of range).
C2_Totality == fault \notin {"todo", "panic", "slice"}

\* C3: a step taken at the end of the input while a tag or a doctype is in
\* progress does not panic, and when it ends the scan the queue holds the
\* in-progress token followed by EndOfInput.
C3_EndOfInputMidConstruct ==
    [][(pc = "next" /\ Looping /\ input = <<>> /\ MidConstruct) =>
          /\ fault' = "none"
          /\ state' = "EOF" =>
                /\ Len(tokens') = 2
                /\ tokens'[2] = TokenEOF
                /\ tag # NoTag =>
                      /\ tokens'[1].type = "Tag"
                      /\ tokens'[1].tag.kind = tag.kind
                      /\ tokens'[1].tag.name = tag.name
                /\ doctype # NoDoctype =>
                      /\ tokens'[1].type = "Doctype"
                      /\ tokens'[1].doctype.name = doctype.name]_vars

\* C4: once next() has returned EndOfInput the state is terminal and the
\* queue is empty, and they stay so: no step is taken any more (the state's
\* fields, the pushes and the fault are unchanged) and the only value next()
\* returns is None.
C4_NothingAfterEndOfInput ==
    [][EndOfInputYielded =>
          /\ state = "EOF" /\ tokens = <<>>
          /\ state' = "EOF" /\ tokens' = <<>>
          /\ UNCHANGED <<input, tag, attribute, doctype, endpos, fault>>
          /\ out' # out => out' = Append(out, None)]_vars

C4_Witness ==
    /\ EndOfInputYielded
    /\ Len(out) >= 3
    /\ out[Len(out)] = None
    /\ out[Len(out) - 1] = None
    /\ out[Len(out) - 2] = TokenEOF

Expected_nested ==
    <<StartTagNamed(<<"p">>), TokenChar("a"), StartTagNamed(<<"b">>),
      TokenChar("c"), EndTagNamed(<<"b">>), EndTagNamed(<<"p">>), TokenEOF>>

\* C5: tokens are yielded in input order.  The tokens pushed so far are
\* never reordered or dropped (the yielded tokens followed by the queue only
\* grow at the end), a token completed at an earlier input position comes
\* first, and <p>a<b>c</b></p> yields exactly
\* [StartTag p, Char a, StartTag b, Char c, EndTag b, EndTag p, EndOfInput].
C5_InputOrder ==
    /\ [](source = Input_nested =>
            /\ IsPrefix(Yielded, Expected_nested)
            /\ Exhausted => Yielded = Expected_nested)
    /\ [](/\ Len(endpos) = Len(Pushed)
          /\ \A i, j \in DOMAIN Pushed :
                i < j => /\ endpos[i] <= endpos[j]
                         /\ Pushed[j].type # "EOF" => endpos[i] < endpos[j])
    /\ [][IsPrefix(Pushed, Pushed')]_vars

C5_Witness ==
    source = Input_nested /\ Exhausted /\ Yielded = Expected_nested

\* C6: the name of every Tag token and of every Doctype token pushed holds
\* no uppercase ASCII letter.
C6_NamesLowercase ==
    \A i \in DOMAIN Pushed :
        /\ Pushed[i].type = "Tag" => NoUpper(Pushed[i].tag.name)
        /\ Pushed[i].type = "Doctype" => NoUpper(Pushed[i].doctype.name)

C6_Witness ==
    /\ source = Input_DIV
    /\ Yielded # <<>>
    /\ Yielded[1] = StartTagNamed(<<"d", "i", "v">>)

\* C7: no attribute name of a Tag token pushed holds an uppercase ASCII
\* letter.
C7_AttributeNamesLowercase ==
    \A i \in DOMAIN Pushed :
        Pushed[i].type = "Tag" =>
            \A k \in DOMAIN Pushed[i].tag.attributes :
                NoUpper(Pushed[i].tag.attributes[k].name)

\* C8: the attribute names of every Tag token pushed are pairwise distinct;
\* the attributes of the tag in progress, and of the tag just pushed, are
\* the first occurrences, in order, of the attributes merged into it; and
\* <input id=1 id=2> yields, once all of it is consumed, a tag with the one
\* attribute id = 1.
C8_DuplicateAttribute ==
    /\ \A i \in DOMAIN Pushed :
          Pushed[i].type = "Tag" =>
              \A k, l \in DOMAIN Pushed[i].tag.attributes :
                  k # l => Pushed[i].tag.attributes[k].name
                           # Pushed[i].tag.attributes[l].name
    /\ tag # NoTag => tag.attributes = FirstWins(seen)
    /\ (tokens # <<>> /\ tokens[Len(tokens)].type = "Tag") =>
          tokens[Len(tokens)].tag.attributes = FirstWins(seen)
    /\ (source = Input_duplicate_id /\ Pushed # <<>>) =>
          /\ Pushed[1] =
                TokenTag([TagNew("Start") EXCEPT
                    !.name = <<"i", "n", "p", "u", "t">>,
                    !.attributes = <<[name |-> <<"i", "d">>,
                                      value |-> <<"1">>]>>])
          /\ endpos[1] = Len(source)

C8_Witness ==
    /\ source = Input_duplicate_id
    /\ Yielded # <<>>
    /\ Len(Yielded[1].tag.attributes) = 1
    /\ Yielded[1].tag.attributes[1].value = <<"1">>
    /\ Len(seen) = 2
    /\ seen[2] = [name |-> <<"i", "d">>, value |-> <<"2">>]

C10_EndTagNotSelfClosing ==
    \A i \in DOMAIN Pushed :
        (Pushed[i].type = "Tag" /\ Pushed[i].tag.kind = "End") =>
            ~Pushed[i].tag.self_closing

-----------------------------------------------------------------------------
(* C11..C20 *)

Expected_doctype_html ==
    <<TokenDoctype([name |-> <<"h", "t", "m", "l">>,
                    public_identifier |-> <<>>,
                    system_identifier |-> <<>>,
                    force_quirks |-> FALSE]),
      TokenEOF>>

\* C11: <!DOCTYPE html> is tokenized without a panic and yields exactly a
\* Doctype token with name html, no public identifier, no system identifier
\* and force_quirks = false, followed by EndOfInput.
C11_DoctypeMinimal ==
    source = Input_doctype_html =>
        /\ ~Panicked
        /\ IsPrefix(Pushed, Expected_doctype_html)
        /\ Exhausted => Yielded = Expected_doctype_html

C11_Witness ==
    /\ source = Input_doctype_html
    /\ Exhausted
    /\ Yielded = Expected_doctype_html

Expected_doctype_public ==
    <<TokenDoctype([name |-> <<"h", "t", "m", "l">>,
                    public_identifier |-> << <<"P">> >>,
                    system_identifier |-> << <<"S">> >>,
                    force_quirks |-> FALSE]),
      TokenEOF>>

\* C12: <!DOCTYPE html PUBLIC "P" "S"> is tokenized without a panic and
\* yields a Doctype token with name html, public identifier Some("P"),
\* system identifier Some("S") and force_quirks = false, then EndOfInput.
C12_DoctypeIdentifiers ==
    source = Input_doctype_public =>
        /\ ~Panicked
        /\ IsPrefix(Pushed, Expected_doctype_public)
        /\ Exhausted => Yielded = Expected_doctype_public

\* The inputs of the specification that deviate from the DOCTYPE grammar:
\* <!DOCTYPE html FOO>, <!DOCTYPE html PUBLIC>, <!DOCTYPE>
DoctypeDeviations ==
    {Input_doctype_foo, Input_doctype_public_bare, Input_doctype_bare}

\* C13: a DOCTYPE that deviates from the expected keyword or quote is
\* tokenized without a panic, and once the input is exhausted a Doctype
\* token with force_quirks = true has been yielded.
C13_DoctypeForceQuirks ==
    source \in DoctypeDeviations =>
        /\ ~Panicked
        /\ Exhausted =>
              \E i \in DOMAIN Yielded :
                  /\ Yielded[i].type = "Doctype"
                  /\ Yielded[i].doctype.force_quirks

\* C14: a character reference in text is replaced by the Char token of the
\* code point it names, and an `&` that starts no reference is yielded as
\* Char('&'): &#65; yields [Char A, EndOfInput], &amp; yields
\* [Char &, EndOfInput] and a&b yields [Char a, Char &, Char b, EndOfInput],
\* none of them with a panic.
C14_CharacterReference ==
    /\ source \in {Input_numeric_reference, Input_named_reference, Input_amp}
          => ~Panicked
    /\ (source = Input_numeric_reference /\ Exhausted) =>
          Yielded = <<TokenChar("A"), TokenEOF>>
    /\ (source = Input_named_reference /\ Exhausted) =>
          Yielded = <<TokenChar("&"), TokenEOF>>
    /\ (source = Input_amp /\ Exhausted) =>
          Yielded = <<TokenChar("a"), TokenChar("&"), TokenChar("b"),
                      TokenEOF>>

\* The states that accumulate text
TextStates ==
    {"Data", "TagName", "AttributeName", "AttributeValueDoubleQuoted",
     "AttributeValueSingleQuoted", "AttributeValueUnquoted",
     "BeforeDoctypeName", "DoctypeName",
     "DoctypePublicIdentifierDoubleQuoted",
     "DoctypePublicIdentifierSingleQuoted",
     "DoctypeSystemIdentifierDoubleQuoted",
     "DoctypeSystemIdentifierSingleQuoted"}

\* C15: a step that reads U+0000 in a state that accumulates text does not
\* panic, in Data it pushes Char(U+FFFD), and a NUL b yields
\* [Char a, Char U+FFFD, Char b, EndOfInput].
C15_NullReplaced ==
    /\ [][(pc = "next" /\ Looping /\ state \in TextStates
              /\ Nth0(input) = "NUL") =>
             /\ fault' = "none"
             /\ state = "Data" => tokens' = <<TokenChar("U+FFFD")>>]_vars
    /\ []((source = Input_nul_text /\ Exhausted) =>
             Yielded = <<TokenChar("a"), TokenChar("U+FFFD"), TokenChar("b"),
                         TokenEOF>>)

\* C16: a step of AttributeValueUnquoted that reads `<` does not panic,
\* appends the `<` to the value of the attribute in progress and stays in
\* AttributeValueUnquoted.
C16_LessThanInUnquotedValue ==
    [][(pc = "next" /\ Looping /\ state = "AttributeValueUnquoted"
           /\ Nth0(input) = "<") =>
          /\ fault' = "none"
          /\ state' = "AttributeValueUnquoted"
          /\ attribute' = [attribute EXCEPT !.value = Append(@, "<")]
          /\ input' = Tail(input)]_vars

StartsWith(s, pre) == Len(s) >= Len(pre) /\ SubSeq(s, 1, Len(pre)) = pre

\* C17: a step of MarkupDeclarationOpen whose input starts with none of
\* `--`, DOCTYPE and `[CDATA[` does not panic, and <!ELEMENT br> is scanned
\* to the end: pulled to exhaustion it yields EndOfInput and no Char of the
\* swallowed construct.
C17_BogusComment ==
    /\ [][(/\ pc = "next" /\ Looping /\ state = "MarkupDeclarationOpen"
           /\ ~StartsWith(input, <<"-", "-">>)
           /\ ~StartsWith(Uppercase(input), Keyword_DOCTYPE)
           /\ ~StartsWith(input, Literal_CDATA)) =>
             fault' = "none"]_vars
    /\ [](source = Input_bogus =>
             /\ ~Panicked
             /\ \A i \in DOMAIN Yielded : Yielded[i].type # "Char"
             /\ Exhausted => Yielded[Len(Yielded)] = TokenEOF)

\* C18: <!--text--> is tokenized without a panic and yields one Comment
\* token and then EndOfInput.
C18_Comment ==
    source = Input_comment =>
        /\ ~Panicked
        /\ Exhausted =>
              /\ Len(Yielded) = 2
              /\ Yielded[1].type = "Comment"
              /\ Yielded[2] = TokenEOF

\* The serialization of a token sequence: a Char as itself, a tag as
\* <name attr="value" ...> with `</` for an end tag and `/>` for a
\* self-closing one; the other tokens have no serialization.
RECURSIVE SerializeAttributes(_)
SerializeAttributes(attrs) ==
    IF attrs = <<>> THEN <<>>
    ELSE <<" ">> \o Head(attrs).name \o <<"=", "\"">> \o Head(attrs).value
         \o <<"\"">> \o SerializeAttributes(Tail(attrs))

SerializeTag(t) ==
    (IF t.kind = "End" THEN <<"<", "/">> ELSE <<"<">>)
    \o t.name \o SerializeAttributes(t.attributes)
    \o (IF t.self_closing THEN <<"/", ">">> ELSE <<">">>)

RECURSIVE Serialize(_)
Serialize(toks) ==
    IF toks = <<>> THEN <<>>
    ELSE (CASE Head(toks).type = "Tag" -> SerializeTag(Head(toks).tag)
            [] Head(toks).type = "Char" -> <<Head(toks).ch>>
            [] OTHER -> <<>>)
         \o Serialize(Tail(toks))

\* The tags and characters of a token sequence
Content(toks) == SelectSeq(toks, LAMBDA t : t.type \in {"Tag", "Char"})

\* Tokenizing the serialization of toks does not panic and yields the tags
\* and characters of toks again
RoundTrip(toks) ==
    LET again == Tokenize(Serialize(toks))
    IN  /\ again.fault = "none"
        /\ Content(again.tokens) = Content(toks)

\* No attribute value of a tag of toks holds a double quote
NoQuoteInValues(toks) ==
    \A i \in DOMAIN toks :
        toks[i].type = "Tag" =>
            \A k \in DOMAIN toks[i].tag.attributes :
                \A j \in DOMAIN toks[i].tag.attributes[k].value :
                    toks[i].tag.attributes[k].value[j] # "\""

\* Well-formed inputs that use only quoted attributes and no character
\* reference
WellFormedQuoted ==
    QuotedInputs \cup {Input_nested, Input_br_slash, Input_br, Input_DIV}

\* C19 as stated: for a well-formed input that uses only quoted attributes
\* and no character reference, tokenizing the serialization of the tokens
\* yielded gives the same tags (names, attributes and values in order,
\* self-closing flags) and characters again.
C19_RoundTripAsStated ==
    (source \in WellFormedQuoted /\ pc = "idle") => RoundTrip(Yielded)

\* C19: for every input, if no attribute value of the tags yielded holds a
\* double quote, tokenizing the serialization of the tokens yielded does not
\* panic and gives the same tags (names, attributes and values in order,
\* self-closing flags) and characters again; and what next() yields is what
\* collecting the iterator yields.
C19_RoundTrip ==
    /\ (pc = "idle" /\ NoQuoteInValues(Yielded)) => RoundTrip(Yielded)
    /\ Exhausted =>
          /\ Tokenize(source).fault = "none"
          /\ Tokenize(source).tokens = Yielded
    /\ Panicked =>
          /\ Tokenize(source).fault = fault
          /\ Tokenize(source).tokens = Yielded

C19_Witness ==
    /\ source = <<"<", "a", " ", "d", "=", "\"", "x", "\"", " ", "e", "=",
                  "'", "Y", "'", "/", ">">>
    /\ Exhausted
    /\ Len(Yielded[1].tag.attributes) = 2
    /\ Yielded[1].tag.attributes[2].value = <<"Y">>
    /\ Yielded[1].tag.self_closing
    /\ Serialize(Yielded) =
          <<"<", "a", " ", "d", "=", "\"", "x", "\"", " ", "e", "=", "\"",
            "Y", "\"", "/", ">">>
    /\ RoundTrip(Yielded)

\* The number, at most k, of steps in a row from s that neither panic nor
\* end the scan and leave the remaining input unchanged
RECURSIVE ReconsumeRun(_, _)
ReconsumeRun(s, k) ==
    IF k = 0 \/ s.state = "EOF" THEN 0
    ELSE LET r == step(s)
         IN  IF r.fault = "none" /\ r.state # "EOF" /\ r.input = s.input
             THEN 1 + ReconsumeRun(r, k - 1)
             ELSE 0

-----------------------------------------------------------------------------
(* C21..C30 *)

\* A step of the machine was taken: a field of the state, the queue's length
\* or the fault changed
StepTaken ==
    \/ <<state, input, tag, attribute, doctype, fault>>' #
          <<state, input, tag, attribute, doctype, fault>>
    \/ Len(tokens') > Len(tokens)

\* C21: next() is lazy.  A step is taken only inside a call of next(), with
\* the queue empty and the state not EOF; once the queue holds a token no
\* step is taken until it is yielded; the call itself changes nothing; and
\* the return yields exactly the oldest queued token (None when the queue is
\* empty), removes it, and leaves the state and the remaining input
\* unchanged.
C21_Lazy ==
    /\ [][StepTaken => (pc = "next" /\ tokens = <<>> /\ state # "EOF")]_vars
    /\ [][tokens # <<>> =>
             UNCHANGED <<state, input, tag, attribute, doctype>>]_vars
    /\ [][(pc = "idle" /\ pc' # "idle") =>
             (pc' = "next" /\ UNCHANGED <<state, input, tag, attribute,
                                          doctype, tokens, out, fault>>)]_vars
    /\ [][out' # out =>
             /\ pc = "next"
             /\ tokens # <<>> \/ state = "EOF"
             /\ out' = Append(out, IF tokens = <<>> THEN None
                                   ELSE Head(tokens))
             /\ tokens' = (IF tokens = <<>> THEN <<>> ELSE Tail(tokens))
             /\ UNCHANGED <<state, input, tag, attribute, doctype>>]_vars

\* <p>a<b>c</b></p> after the first pull: one token yielded, the queue empty
\* and everything after <p> still unread
C21_Witness ==
    /\ source = Input_nested
    /\ pc = "idle"
    /\ Yielded = <<StartTagNamed(<<"p">>)>>
    /\ tokens = <<>>
    /\ state = "Data"
    /\ input = SubSeq(source, 4, Len(source))

\* C22: a step applied to the EOF state panics with panic!(), not with the
\* todo!() or the slice failure that malformed input runs into; it pushes no
\* token and gives no successor state (the caller is left without one).
C22_SteppingEOFPanics ==
    [][(state = "EOF" /\ pc # "panicked") =>
          /\ fault' = "panic"
          /\ pc' = "panicked"
          /\ tokens' = tokens
          /\ state' = "EOF"
          /\ UNCHANGED <<out, endpos>>]_vars

\* The empty input stepped twice: Data pushed EndOfInput and went to EOF,
\* and the step of EOF panicked
C22_Witness ==
    /\ source = <<>>
    /\ fault = "panic"
    /\ pc = "panicked"
    /\ tokens = <<TokenEOF>>

\* C23: a step of Data that reads a character other than `<` and `&` does
\* not panic and pushes exactly the Char token of that character, and no
\* step in any state makes the queue longer by more than one token.
C23_DataEmitsEachCharacter ==
    /\ [][(pc = "next" /\ Looping /\ state = "Data" /\ input # <<>>
              /\ Head(input) \notin {"<", "&"}) =>
             /\ fault' = "none"
             /\ tokens' = <<TokenChar(Head(input))>>
             /\ state' = "Data"
             /\ input' = Tail(input)]_vars
    /\ [][Len(tokens') <= Len(tokens) + 1]_vars

\* C24: for every ASCII letter c, a step of TagOpen that reads c does not
\* panic and starts a start tag with an empty name, a step of EndTagOpen
\* that reads c starts an end tag with an empty name, both without consuming
\* c, and the step of TagName that follows appends the lowercased c.
C24_EveryLetterStartsTag ==
    /\ [][(pc = "next" /\ Looping /\ state = "TagOpen"
              /\ (IsLower(Nth0(input)) \/ IsUpper(Nth0(input)))) =>
             /\ fault' = "none"
             /\ state' = "TagName"
             /\ tag' = TagNew("Start")
             /\ input' = input]_vars
    /\ [][(pc = "next" /\ Looping /\ state = "EndTagOpen"
              /\ (IsLower(Nth0(input)) \/ IsUpper(Nth0(input)))) =>
             /\ fault' = "none"
             /\ state' = "TagName"
             /\ tag' = TagNew("End")
             /\ input' = input]_vars
    /\ [][(pc = "next" /\ Looping /\ state = "TagName" /\ tag.name = <<>>) =>
             /\ fault' = "none"
             /\ state' = "TagName"
             /\ tag'.name = <<to_ascii_lowercase(Head(input))>>
             /\ input' = Tail(input)]_vars

\* C25: a step of AfterAttributeName that leaves the name behind (at `/`,
\* at `>` or at the first character of the next attribute) merges the
\* attribute into the tag under the duplicate rule, and <input disabled/>
\* yields a self-closing start tag input with the attribute disabled.
C25_AttributeMergedAtNameEnd ==
    /\ [][(pc = "next" /\ Looping /\ state = "AfterAttributeName"
              /\ fault' = "none"
              /\ state' \notin {"AfterAttributeName", "BeforeAttributeValue"})
             => \/ tag' = add_attribute(tag, attribute)
                \/ tokens' = <<TokenTag(add_attribute(tag, attribute))>>]_vars
    /\ []((source = Input_disabled_slash /\ Pushed # <<>>) =>
             Pushed[1] =
                TokenTag([TagNew("Start") EXCEPT
                    !.name = <<"i", "n", "p", "u", "t">>,
                    !.self_closing = TRUE,
                    !.attributes = <<[name |-> <<"d", "i", "s", "a", "b",
                                                 "l", "e", "d">>,
                                      value |-> <<>>]>>]))

\* <!DOCTYPE html SYSTEM "S">, with either quote, with and without the
\* spaces around the identifier
DoctypeSystemForms ==
    {Input_doctype_system, Input_doctype_system_single,
     Input_doctype_system_nospace, Input_doctype_system_nospace_double}

Expected_doctype_system ==
    <<TokenDoctype([name |-> <<"h", "t", "m", "l">>,
                    public_identifier |-> <<>>,
                    system_identifier |-> << <<"S">> >>,
                    force_quirks |-> FALSE]),
      TokenEOF>>

\* C26: <!DOCTYPE html SYSTEM "S">, double- or single-quoted, is tokenized
\* without a panic and yields exactly a Doctype token with name html, no
\* public identifier, system identifier Some("S") and force_quirks = false,
\* followed by EndOfInput.
C26_DoctypeSystem ==
    source \in DoctypeSystemForms =>
        /\ ~Panicked
        /\ IsPrefix(Pushed, Expected_doctype_system)
        /\ Exhausted => Yielded = Expected_doctype_system

C26_Witness ==
    /\ source = Input_doctype_system_single
    /\ Exhausted
    /\ Yielded = Expected_doctype_system

\* The run on `spelled` agrees with the whole tokenization of `upper`: the
\* tokens yielded are a prefix of its tokens, all of them once the iterator
\* is exhausted, and a panic occurs only where it does for `upper`
SameAsUpper(spelled, upper) ==
    source = spelled =>
        /\ IsPrefix(Yielded, Tokenize(upper).tokens)
        /\ Exhausted => Yielded = Tokenize(upper).tokens
        /\ Panicked => fault = Tokenize(upper).fault

\* C27: the keyword lookahead is case-insensitive.  A step of
\* MarkupDeclarationOpen on any spelling of DOCTYPE goes to Doctype with the
\* input after the keyword; a step of AfterDoctypeName on any spelling of
\* PUBLIC or SYSTEM goes to the state of that keyword, the doctype
\* unchanged; every spelling of <!DOCTYPE html>, <!DOCTYPE html SYSTEM "S">
\* and <!DOCTYPE html PUBLIC "" "S"> yields what the upper-case spelling
\* yields, and <!doctype HTML> yields the Doctype html of <!DOCTYPE html>.
C27_KeywordsCaseInsensitive ==
    /\ [][(pc = "next" /\ Looping /\ state = "MarkupDeclarationOpen"
              /\ StartsWith(Uppercase(input), Keyword_DOCTYPE)) =>
             /\ fault' = "none"
             /\ state' = "Doctype"
             /\ input' = SubSeq(input, 8, Len(input))]_vars
    /\ [][(pc = "next" /\ Looping /\ state = "AfterDoctypeName"
              /\ \/ StartsWith(Uppercase(input), Keyword_PUBLIC)
                 \/ StartsWith(Uppercase(input), Keyword_SYSTEM)) =>
             /\ fault' = "none"
             /\ state' = (IF StartsWith(Uppercase(input), Keyword_PUBLIC)
                          THEN "AfterDoctypePublicKeyword"
                          ELSE "AfterDoctypeSystemKeyword")
             /\ input' = SubSeq(input, 7, Len(input))
             /\ doctype' = doctype]_vars
    /\ [](StartsWith(source, <<"<", "!">>) =>
            /\ \A k \in CaseSpellings(Keyword_DOCTYPE) :
                  SameAsUpper(DoctypeSpelled(k),
                              DoctypeSpelled(Keyword_DOCTYPE))
            /\ \A k \in CaseSpellings(Keyword_SYSTEM) :
                  SameAsUpper(SystemSpelled(k), SystemSpelled(Keyword_SYSTEM))
            /\ \A k \in CaseSpellings(Keyword_PUBLIC) :
                  SameAsUpper(PublicSpelled(k), PublicSpelled(Keyword_PUBLIC))
            /\ (source = Input_doctype_lower /\ Exhausted) =>
                  Yielded = Expected_doctype_html)

\* <!dOcTyPe html> pulled to exhaustion
C27_Witness ==
    /\ source = DoctypeSpelled(<<"d", "O", "c", "T", "y", "P", "e">>)
    /\ Exhausted
    /\ Yielded = Expected_doctype_html
    /\ Yielded = Tokenize(DoctypeSpelled(Keyword_DOCTYPE)).tokens

\* C28: driven through next(), the queue never holds more than one token,
\* and it is empty whenever a step is taken.
C28_QueueAtMostOne ==
    /\ [](Len(tokens) <= 1)
    /\ [][StepTaken => tokens = <<>>]_vars

\* Inside the second call of next() on <p>a<b>c</b></p>: the step of Data
\* has pushed Char a on the empty queue and the call has not returned yet
C28_Witness ==
    /\ source = Input_nested
    /\ pc = "next"
    /\ Yielded = <<StartTagNamed(<<"p">>)>>
    /\ tokens = <<TokenChar("a")>>

\* C29: a step of MarkupDeclarationOpen with fewer than 7 bytes of input
\* left, and a step of AfterDoctypeName that looks for a keyword with fewer
\* than 6 bytes left, do not fail on an out-of-range slice; nor does any
\* step on <!, <!- and <!DOCTYPE html P>.
C29_LookaheadInRange ==
    /\ [][(pc = "next" /\ Looping /\ state = "MarkupDeclarationOpen"
              /\ ByteLen(input) < 7) => fault' # "slice"]_vars
    /\ [][(pc = "next" /\ Looping /\ state = "AfterDoctypeName"
              /\ input # <<>>
              /\ Head(input) \notin Whitespace \cup {">"}
              /\ ByteLen(input) < 6) => fault' # "slice"]_vars
    /\ [](source \in {Input_bang, Input_bang_dash,
                      Input_doctype_short_keyword} => fault # "slice")

\* C30: in DoctypePublicIdentifierDoubleQuoted/SingleQuoted the public
\* identifier of the doctype is Some, in DoctypeSystemIdentifierDoubleQuoted/
\* SingleQuoted the system identifier is Some, and no step of these four
\* states ends in panic!().
C30_IdentifierPresent ==
    /\ [](state \in {"DoctypePublicIdentifierDoubleQuoted",
                     "DoctypePublicIdentifierSingleQuoted"} =>
             doctype.public_identifier # <<>>)
    /\ [](state \in {"DoctypeSystemIdentifierDoubleQuoted",
                     "DoctypeSystemIdentifierSingleQuoted"} =>
             doctype.system_identifier # <<>>)
    /\ [][(state \in {"DoctypePublicIdentifierDoubleQuoted",
                      "DoctypePublicIdentifierSingleQuoted",
                      "DoctypeSystemIdentifierDoubleQuoted",
                      "DoctypeSystemIdentifierSingleQuoted"}) =>
             fault' # "panic"]_vars

-----------------------------------------------------------------------------
(* C31..C32 *)

\* C31: no step that reads a character of more than one byte fails on a
\* slice, and when it returns the input is unchanged or advanced by that
\* whole character; in Data, in TagName and in the attribute-value states
\* the step returns with the character consumed; a U+00E9 yields
\* [Char a, Char U+00E9, EndOfInput] and <a b="U+20AC"> yields the start tag
\* a with the attribute b = U+20AC.
C31_WholeCharacterAdvance ==
    /\ [][(pc = "next" /\ Looping /\ input # <<>>
              /\ Head(input) \in WideChars) =>
             /\ fault' # "slice"
             /\ fault' = "none" => input' \in {input, Tail(input)}]_vars
    /\ [][(pc = "next" /\ Looping /\ input # <<>>
              /\ Head(input) \in WideChars
              /\ state \in {"Data", "TagName", "AttributeValueDoubleQuoted",
                            "AttributeValueSingleQuoted",
                            "AttributeValueUnquoted"}) =>
             /\ fault' = "none"
             /\ input' = Tail(input)]_vars
    /\ [](source \in {Input_wide_text, Input_wide_value} => ~Panicked)
    /\ []((source = Input_wide_text /\ Exhausted) =>
             Yielded = <<TokenChar("a"), TokenChar("U+00E9"), TokenEOF>>)
    /\ []((source = Input_wide_value /\ Exhausted) =>
             Yielded =
                <<TokenTag([TagNew("Start") EXCEPT
                      !.name = <<"a">>,
                      !.attributes = <<[name |-> <<"b">>,
                                        value |-> <<"U+20AC">>]>>]),
                  TokenEOF>>)

Expected_main ==
    <<StartTagNamed(<<"d", "i", "v">>),
      TokenTag([TagNew("Start") EXCEPT
          !.name = <<"i", "n", "p", "u", "t">>,
          !.self_closing = TRUE,
          !.attributes =
              <<[name |-> <<"i", "d">>,
                 value |-> <<"c", "h", "e", "c", "k">>],
                [name |-> <<"d", "i", "s", "a", "b", "l", "e", "d">>,
                 value |-> <<>>],
                [name |-> <<"t", "y", "p", "e">>,
                 value |-> <<"c", "h", "e", "c", "k", "b", "o", "x">>],
                [name |-> <<"n", "a", "m", "e">>,
                 value |-> <<"v", "a", "l", "i", "d">>]>>]),
      EndTagNamed(<<"d", "i", "v">>),
      TokenEOF>>

Expected_tab_separated ==
    <<TokenTag([TagNew("Start") EXCEPT
          !.name = <<"a">>,
          !.attributes = <<[name |-> <<"b">>, value |-> <<"1">>],
                           [name |-> <<"c">>, value |-> <<>>]>>]),
      TokenChar("x"),
      TokenEOF>>

\* C32: an attribute without a value is merged with an empty value when the
\* name is followed, after optional whitespace, by `>` or by the next
\* attribute; the attributes of a tag only grow at the end, one at a time,
\* so they are in the order of their first occurrence; the input of main
\* yields div, then the self-closing input with id=check, disabled="",
\* type=checkbox, name=valid in that order, then the end tag div; and
\* <a\tb='1'\tc>x yields a with b=1, c="".
C32_ValuelessAttributesInOrder ==
    /\ [][(pc = "next" /\ Looping /\ state = "AfterAttributeName"
              /\ input # <<>>
              /\ Head(input) \notin Whitespace \cup {"/", "="}) =>
             /\ fault' = "none"
             /\ attribute.value = <<>>
             /\ IF Head(input) = ">"
                THEN tokens' = <<TokenTag(add_attribute(tag, attribute))>>
                ELSE /\ tag' = add_attribute(tag, attribute)
                     /\ attribute' = AttributeNew
                     /\ state' = "AttributeName"]_vars
    /\ [][(tag # NoTag /\ tag' # NoTag) =>
             /\ IsPrefix(tag.attributes, tag'.attributes)
             /\ Len(tag'.attributes) <= Len(tag.attributes) + 1]_vars
    /\ [][(tag # NoTag /\ Len(tokens') > Len(tokens)) =>
             /\ IsPrefix(tag.attributes, tokens'[Len(tokens')].tag.attributes)
             /\ Len(tokens'[Len(tokens')].tag.attributes)
                   <= Len(tag.attributes) + 1]_vars
    /\ [](source = Input_main =>
             /\ ~Panicked
             /\ IsPrefix(Pushed, Expected_main)
             /\ Exhausted => Yielded = Expected_main)
    /\ [](source = Input_tab_separated =>
             /\ ~Panicked
             /\ IsPrefix(Pushed, Expected_tab_separated)
             /\ Exhausted => Yielded = Expected_tab_separated)

C32_Witness ==
    /\ source = Input_main
    /\ Exhausted
    /\ Yielded = Expected_main
    /\ Yielded[2].tag.attributes[2].value = <<>>

====
